---- MODULE Spec2Model ----
(***************************************************************************)
(* Model of src/Dashboard.py: extraction of line items from fiscal XML     *)
(* documents (parse_xml_base), batch processing of a directory             *)
(* (processar_diretorio_xml) and the per-product summary                   *)
(* (criar_resumo_produto) computed by the "Analisar XMLs" handler.         *)
(*                                                                         *)
(* Representation                                                          *)
(*  - XML text and Python str values are TLA+ strings; Python None is the  *)
(*    string None.  lxml gives .text = None for an empty element, so a     *)
(*    text is either None or a non-empty string.                           *)
(*  - An XML element is a record with a `present` flag (FALSE: find()      *)
(*    returned None) and an `ns` flag (TRUE: the element is in the NF-e    *)
(*    namespace, FALSE: it has no namespace).                              *)
(*  - A Python float is a record [k, v]: k = "fin" with the value v (the   *)
(*    model only uses values that are exact small integers), k = "inf"     *)
(*    with the sign v, or k = "nan".                                       *)
(*  - A DataFrame is the sequence of its rows; pd.DataFrame() is <<>>.     *)
(*                                                                         *)
(* Specifications: all run the handler (Analisar) and differ in the        *)
(* directories they start from.  Spec: batches of up to MaxFiles entries   *)
(* (well-formed, malformed, unreadable, empty, not .xml).  SpecResumo: one *)
(* document of up to MaxDets items that differ in one product field.       *)
(* SpecExtract: one two-item document, with up to two of its elements      *)
(* removed, taken out of the namespace, emptied or given another text.     *)
(* SpecCache: the handler run again and again on a directory whose         *)
(* content changes between runs.                                           *)
(***************************************************************************)
EXTENDS Integers, Sequences, FiniteSets, TLC

VARIABLES
    diretorio,        \* the directory given to the handler: [isdir, files]
    tipo_doc,         \* 'Venda' or 'Compra'
    pc,               \* "idle" before the button handler ran, "done" after
    df_detalhe,       \* value returned by processar_diretorio_xml
    total_files,      \* processar_diretorio_xml: len(files)
    processed_count,  \* processar_diretorio_xml: documents that gave data
    error_files,      \* processar_diretorio_xml: failure list
    progress_bar,     \* processar_diretorio_xml: progress updates made
    st_log,           \* st.error / st.warning / st.success calls, in order
    processou,        \* handler: not df.empty
    outra_processou,  \* handler: the other document class gave data
    df_resumo,        \* value returned by criar_resumo_produto
    cache             \* st.cache_data entries of processar_diretorio_xml

vars == <<diretorio, tipo_doc, pc, df_detalhe, total_files, processed_count, error_files, progress_bar, st_log, processou, outra_processou, df_resumo, cache>>

(***************************************************************************)
(* Python values                                                           *)
(***************************************************************************)
None == "<None>"

Fin(x) == [k |-> "fin", v |-> x]

PInf == [k |-> "inf", v |-> 1]

NInf == [k |-> "inf", v |-> 0 - 1]

NaN == [k |-> "nan", v |-> 0]

Sgn(n) == IF n > 0 THEN 1 ELSE IF n < 0 THEN 0 - 1 ELSE 0

\* IEEE-754 multiplication: nan is absorbing, inf * 0 is nan.
fmul(a, b) ==
    IF a.k = "nan" \/ b.k = "nan" THEN NaN
    ELSE IF a.k = "fin" /\ b.k = "fin" THEN Fin(a.v * b.v)
    ELSE IF Sgn(a.v) * Sgn(b.v) = 0 THEN NaN
    ELSE [k |-> "inf", v |-> Sgn(a.v) * Sgn(b.v)]

\* IEEE-754 addition: nan is absorbing, inf + (-inf) is nan.
fadd(a, b) ==
    IF a.k = "nan" \/ b.k = "nan" THEN NaN
    ELSE IF a.k = "fin" /\ b.k = "fin" THEN Fin(a.v + b.v)
    ELSE IF a.k = "inf" /\ b.k = "inf" THEN (IF a.v = b.v THEN a ELSE NaN)
    ELSE IF a.k = "inf" THEN a ELSE b

\* IEEE-754 a >= b: false as soon as one side is nan.
fgeq(a, b) ==
    IF a.k = "nan" \/ b.k = "nan" THEN FALSE
    ELSE IF a.k = "inf" THEN a.v = 1 \/ (b.k = "inf" /\ b.v = 0 - 1)
    ELSE IF b.k = "inf" THEN b.v = 0 - 1
    ELSE a.v >= b.v

\* The texts float() converts, among the texts of the model; any other
\* text raises ValueError.
FloatTexts == {"0", "1", "2", "3", "5", "5.0", "10", "100", "inf", "-inf", "nan"}

py_float(text) ==
    CASE text = "0" -> Fin(0)
      [] text = "1" -> Fin(1)
      [] text = "2" -> Fin(2)
      [] text = "3" -> Fin(3)
      [] text = "5" -> Fin(5)
      [] text = "5.0" -> Fin(5)
      [] text = "10" -> Fin(10)
      [] text = "100" -> Fin(100)
      [] text = "inf" -> PInf
      [] text = "-inf" -> NInf
      [] text = "nan" -> NaN

\* try: float(text) if text else 0.0  except (ValueError, TypeError): 0.0
float_text(text) ==
    IF text = None THEN Fin(0)
    ELSE IF text \in FloatTexts THEN py_float(text)
    ELSE Fin(0)

\* Python `a or b` on values that are None or non-empty strings.
py_or(a, b) == IF a # None THEN a ELSE b

(***************************************************************************)
(* XML elements                                                            *)
(***************************************************************************)
NoElement == [present |-> FALSE]

\* A leaf element <tag>text</tag>, qualified by the namespace or not.
Leaf(ns, text) == [present |-> TRUE, ns |-> ns, text |-> text]

ProdTags == {"cProd", "xProd", "NCM", "CFOP", "cEAN", "qCom", "vUnCom"}

\* element.find('./ns:tag', ns) when namespaces is TRUE,
\* element.find('./tag') when it is FALSE.
find(element, tag, namespaces) ==
    LET child == element[tag]
    IN  IF child.present /\ child.ns = namespaces THEN child ELSE NoElement

get_xml_text(element, tag, namespaces) ==
    IF ~element.present THEN None
    ELSE LET found == find(element, tag, namespaces)
         IN  IF found.present THEN found.text ELSE None

(***************************************************************************)
(* parse_xml_base                                                          *)
(*                                                                         *)
(* An xml_file is [name, xml, doc]; doc is [status, root] where status is  *)
(* what ET.parse does with the file ("ok", or the exception it raises) and *)
(* root is [present, ide, dets]: the first <ide> element of the tree and   *)
(* the <det> elements in document order.  <ide> holds dhEmi, a <det> holds *)
(* prod, a <prod> holds the leaves named in ProdTags.                      *)
(***************************************************************************)
\* root.find('.//ns:ide') ... elif root.find('.//ide')
dh_emi_of(root) ==
    IF find(root, "ide", TRUE).present
    THEN get_xml_text(find(root, "ide", TRUE), "dhEmi", TRUE)
    ELSE IF find(root, "ide", FALSE).present
         THEN get_xml_text(find(root, "ide", FALSE), "dhEmi", FALSE)
         ELSE None

findall_det(root, namespaces) == SelectSeq(root.dets, LAMBDA d : d.ns = namespaces)

\* det_elements: the namespaced <det>s, or the plain ones when there is none
det_elements_of(root) ==
    IF findall_det(root, TRUE) # <<>> THEN findall_det(root, TRUE)
    ELSE findall_det(root, FALSE)

\* prod_element: './ns:prod', then './prod'
find_prod(det) ==
    IF find(det, "prod", TRUE).present THEN find(det, "prod", TRUE)
    ELSE find(det, "prod", FALSE)

\* Variant: the lookup without the fallback to the unqualified name.
field_text_ns_only(prod_element, tag) == get_xml_text(prod_element, tag, TRUE)

\* get_xml_text(prod, './ns:tag', ns) or get_xml_text(prod, './tag', None)
field_text(prod_element, tag) ==
    py_or(get_xml_text(prod_element, tag, TRUE), get_xml_text(prod_element, tag, FALSE))

line_total(quantidade, valor_unitario) == fmul(quantidade, valor_unitario)

make_item(xml_file, tipo, dh_emi, prod_element) ==
    LET quantidade == float_text(field_text(prod_element, "qCom"))
        valor_unitario == float_text(field_text(prod_element, "vUnCom"))
    IN  [arquivo_origem |-> xml_file.name,
         data_hora_emissao |-> dh_emi,
         tipo_documento |-> tipo,
         codigo_produto |-> field_text(prod_element, "cProd"),
         nome_produto |-> field_text(prod_element, "xProd"),
         NCM |-> field_text(prod_element, "NCM"),
         CFOP |-> field_text(prod_element, "CFOP"),
         codigo_barras |-> field_text(prod_element, "cEAN"),
         quantidade |-> quantidade,
         valor_unitario |-> valor_unitario,
         valor_total_item |-> line_total(quantidade, valor_unitario)]

\* Variant: every item with a <prod> is retained.
keep_item_all(item) == TRUE

\* if item.get('codigo_produto') or item.get('nome_produto')
keep_item(item) == item.codigo_produto # None \/ item.nome_produto # None

\* for det in det_elements: ... continue / itens.append(item)
\* itens.append(item) when the item is retained; rest holds the items of
\* the following <det>s
append_item(item, rest) == IF keep_item(item) THEN <<item>> \o rest ELSE rest

\* the body of the loop for one <det> whose <prod> lookup gave prod_element
det_body(prod_element, xml_file, tipo, dh_emi, rest) ==
    IF ~prod_element.present THEN rest
    ELSE append_item(make_item(xml_file, tipo, dh_emi, prod_element), rest)

RECURSIVE det_loop(_, _, _, _)
det_loop(dets, xml_file, tipo, dh_emi) ==
    IF dets = <<>> THEN <<>>
    ELSE det_body(find_prod(Head(dets)), xml_file, tipo, dh_emi,
                  det_loop(Tail(dets), xml_file, tipo, dh_emi))

parse_xml_base(xml_file, tipo) ==
    IF xml_file.doc.status = "XMLSyntaxError" THEN <<>>
    ELSE IF xml_file.doc.status # "ok" THEN <<>>
    ELSE det_loop(det_elements_of(xml_file.doc.root), xml_file, tipo,
                  dh_emi_of(xml_file.doc.root))

\* Whether the call at line 153 raises: parse_xml_base catches Exception.
parse_raises(xml_file, tipo) == FALSE

(***************************************************************************)
(* processar_diretorio_xml                                                 *)
(*                                                                         *)
(* A diretorio is [isdir, listdir, files]: listdir is "ok" or the          *)
(* exception os.listdir raises, files the directory entries in listing     *)
(* order.  The result is the returned DataFrame `ret` together with the    *)
(* function's bookkeeping and the st.* calls it made.                      *)
(***************************************************************************)
pd_DataFrame_empty == <<>>

\* files = [f for f in os.listdir(diretorio) if f.lower().endswith(".xml")]
listdir_xml(dir) == SelectSeq(dir.files, LAMBDA f : f.xml)

\* one iteration of `for i, filename in enumerate(files)`
\* the try block of one iteration, data being what parse_xml_base returned
loop_try(acc, xml_file, tipo, data) ==
    IF parse_raises(xml_file, tipo)
    THEN [acc EXCEPT !.error_files = Append(@, xml_file.name),
                     !.progress = @ + 1]
    ELSE IF data # <<>>
         THEN [acc EXCEPT !.all_data = @ \o data,
                          !.processed_count = @ + 1,
                          !.progress = @ + 1]
         ELSE [acc EXCEPT !.progress = @ + 1]

loop_body(acc, xml_file, tipo) == loop_try(acc, xml_file, tipo, parse_xml_base(xml_file, tipo))

\* Variant: the try encloses the whole loop, so the first document that
\* fails to parse ends the batch.
RECURSIVE batch_loop_abort(_, _, _)
batch_loop_abort(files, acc, tipo) ==
    IF files = <<>> THEN acc
    ELSE IF Head(files).doc.status # "ok" THEN acc
    ELSE batch_loop_abort(Tail(files), loop_body(acc, Head(files), tipo), tipo)

RECURSIVE batch_loop(_, _, _)
batch_loop(files, acc, tipo) ==
    IF files = <<>> THEN acc
    ELSE batch_loop(Tail(files), loop_body(acc, Head(files), tipo), tipo)

\* pd.to_numeric(col, errors='coerce').fillna(0.0) on a float value
to_numeric_fillna(x) == IF x.k = "nan" THEN Fin(0) ELSE x

DateTexts == {"2024-01-05T10:00:00-03:00"}

NaT == [iso |-> "NaT"]

\* pd.to_datetime(col, errors='coerce') on one value
to_datetime(text) == IF text \in DateTexts THEN [iso |-> text] ELSE NaT

coerce_row(row) ==
    [row EXCEPT !.quantidade = to_numeric_fillna(@),
                !.valor_unitario = to_numeric_fillna(@),
                !.valor_total_item = to_numeric_fillna(@),
                !.data_hora_emissao = to_datetime(@)]

coerce_df(all_data) == [i \in 1..Len(all_data) |-> coerce_row(all_data[i])]

Outcome(ret, total, processed, errors, progress, st) ==
    [ret |-> ret, total_files |-> total, processed_count |-> processed,
     error_files |-> errors, progress |-> progress, st |-> st]

\* Variant: the warning of "no item data" reused for "no .xml file".
st_nenhum_arquivo_igual == <<"write", "warning_nenhum_dado">>

\* st.warning("Nenhum arquivo .xml encontrado ...")
st_nenhum_arquivo == <<"write", "warning_nenhum_arquivo">>

\* st.warning("Nenhum dado de item valido encontrado ...")
st_nenhum_dado == <<"warning_nenhum_dado">>

\* if error_files: st.warning(...)
st_erros(acc) == IF acc.error_files # <<>> THEN <<"warning_erros">> ELSE <<>>

\* the function from `if total_files == 0` on, acc being the state the
\* loop over the total files leaves
processar_fim(total, acc) ==
    IF total = 0
    THEN Outcome(pd_DataFrame_empty, 0, 0, <<>>, 0, st_nenhum_arquivo)
    ELSE IF acc.all_data = <<>>
    THEN Outcome(pd_DataFrame_empty, total, acc.processed_count,
                 acc.error_files, acc.progress,
                 <<"write">> \o st_erros(acc) \o st_nenhum_dado)
    ELSE Outcome(coerce_df(acc.all_data), total, acc.processed_count,
                 acc.error_files, acc.progress,
                 <<"write">> \o st_erros(acc) \o <<"success">>)

processar_diretorio_xml(dir, tipo) ==
    IF ~dir.isdir THEN Outcome(pd_DataFrame_empty, 0, 0, <<>>, 0, <<"error_diretorio">>)
    ELSE IF dir.listdir = "FileNotFoundError"
    THEN Outcome(pd_DataFrame_empty, 0, 0, <<>>, 0, <<"write", "error_listar">>)
    ELSE IF dir.listdir # "ok"
    THEN Outcome(pd_DataFrame_empty, 0, 0, <<>>, 0, <<"write", "error_inesperado">>)
    ELSE processar_fim(Len(listdir_xml(dir)),
                       batch_loop(listdir_xml(dir),
                                  [all_data |-> <<>>, processed_count |-> 0,
                                   error_files |-> <<>>, progress |-> 0], tipo))

(***************************************************************************)
(* criar_resumo_produto                                                    *)
(***************************************************************************)
\* The strings of the model that serve as group keys or CFOP values, in
\* Python str order (the order groupby and Series.mode sort by).
StrOrder == <<"1102", "5102", "5405", "P1", "P2">>

str_rank(text) == CHOOSE i \in 1..Len(StrOrder) : StrOrder[i] = text

str_lt(a, b) == str_rank(a) < str_rank(b)

\* df.dropna(subset=['codigo_produto'])
dropna_codigo(df) == SelectSeq(df, LAMBDA r : r.codigo_produto # None)

\* the set as a sequence in ascending str order
RECURSIVE sorted_strs(_)
sorted_strs(S) ==
    IF S = {} THEN <<>>
    ELSE LET m == CHOOSE x \in S : \A y \in S : x = y \/ str_lt(x, y)
         IN  <<m>> \o sorted_strs(S \ {m})

\* Variant: the value of the first row of the group, null or not.
agg_first_row(rows, col) == IF rows = <<>> THEN None ELSE Head(rows)[col]

\* GroupBy 'first': the first non-null value of the column in the group
RECURSIVE agg_first(_, _)
agg_first(rows, col) ==
    IF rows = <<>> THEN None
    ELSE IF Head(rows)[col] # None THEN Head(rows)[col]
    ELSE agg_first(Tail(rows), col)

\* GroupBy 'sum' of a float column
RECURSIVE agg_sum(_, _)
agg_sum(rows, col) ==
    IF rows = <<>> THEN Fin(0)
    ELSE fadd(agg_sum(SubSeq(rows, 1, Len(rows) - 1), col), rows[Len(rows)][col])

\* GroupBy 'mean' of a float column, kept as the pair sum / count
agg_mean(rows, col) == [sum |-> agg_sum(rows, col), count |-> Len(rows)]

count_of(rows, col, value) == Cardinality({i \in 1..Len(rows) : rows[i][col] = value})

\* Series.mode(): the most frequent non-null values, sorted ascending
series_mode(rows, col) ==
    LET values == {rows[i][col] : i \in 1..Len(rows)} \ {None}
        modes == {x \in values : \A y \in values : count_of(rows, col, x) >= count_of(rows, col, y)}
    IN  sorted_strs(modes)

\* Variant: the last of the sorted modes instead of the first.
agg_cfop_last(rows) ==
    IF series_mode(rows, "CFOP") # <<>>
    THEN series_mode(rows, "CFOP")[Len(series_mode(rows, "CFOP"))]
    ELSE None

\* lambda x: x.mode()[0] if not x.mode().empty else None
agg_cfop(rows) ==
    IF series_mode(rows, "CFOP") # <<>> THEN series_mode(rows, "CFOP")[1] ELSE None

\* Variant: the sums taken over the whole frame instead of the group.
resumo_row_all(df_clean, codigo) ==
    LET rows == SelectSeq(df_clean, LAMBDA r : r.codigo_produto = codigo)
    IN  [codigo_produto |-> codigo,
         nome_produto |-> agg_first(rows, "nome_produto"),
         qtd_total |-> agg_sum(df_clean, "quantidade"),
         valor_total |-> agg_sum(df_clean, "valor_total_item"),
         CFOP_predominante |-> agg_cfop(rows),
         NCM |-> agg_first(rows, "NCM"),
         valor_unitario_medio |-> agg_mean(rows, "valor_unitario")]

resumo_row(df_clean, codigo) ==
    LET rows == SelectSeq(df_clean, LAMBDA r : r.codigo_produto = codigo)
    IN  [codigo_produto |-> codigo,
         nome_produto |-> agg_first(rows, "nome_produto"),
         qtd_total |-> agg_sum(rows, "quantidade"),
         valor_total |-> agg_sum(rows, "valor_total_item"),
         CFOP_predominante |-> agg_cfop(rows),
         NCM |-> agg_first(rows, "NCM"),
         valor_unitario_medio |-> agg_mean(rows, "valor_unitario")]

\* df_clean.groupby('codigo_produto', as_index=False).agg(agg_funcs):
\* one row per key, keys in ascending order
groupby_agg(df_clean) ==
    LET keys == sorted_strs({df_clean[i].codigo_produto : i \in 1..Len(df_clean)})
    IN  [i \in 1..Len(keys) |-> resumo_row(df_clean, keys[i])]

\* position of a row among rows already in descending order: after every
\* row whose total is >= its own (rows of equal total keep the group order)
RECURSIVE insert_desc(_, _)
insert_desc(row, sorted) ==
    IF sorted = <<>> THEN <<row>>
    ELSE IF fgeq(Head(sorted).qtd_total, row.qtd_total)
         THEN <<Head(sorted)>> \o insert_desc(row, Tail(sorted))
         ELSE <<row>> \o sorted

RECURSIVE sort_desc(_)
sort_desc(rows) ==
    IF rows = <<>> THEN <<>>
    ELSE insert_desc(rows[Len(rows)], sort_desc(SubSeq(rows, 1, Len(rows) - 1)))

\* df_resumo.sort_values(by=qtd_total, ascending=False): descending, the
\* rows whose key is NaN last (na_position='last')
sort_values_desc(rows) ==
    sort_desc(SelectSeq(rows, LAMBDA r : r.qtd_total.k # "nan"))
        \o SelectSeq(rows, LAMBDA r : r.qtd_total.k = "nan")

criar_resumo_produto(df) ==
    IF df = pd_DataFrame_empty THEN pd_DataFrame_empty
    ELSE IF dropna_codigo(df) = <<>> THEN pd_DataFrame_empty
    ELSE sort_values_desc(groupby_agg(dropna_codigo(df)))

(***************************************************************************)
(* The "Analisar XMLs" handler, for one document class                     *)
(***************************************************************************)
\* if os.path.isdir(DIR): df = processar_diretorio_xml(DIR, tipo)
\* else: st.sidebar.error(...)
handler_processa(dir, tipo) ==
    IF dir.isdir THEN processar_diretorio_xml(dir, tipo)
    ELSE Outcome(pd_DataFrame_empty, 0, 0, <<>>, 0, <<"sidebar_error">>)

\* @st.cache_data: the entries are keyed by the arguments of the call,
\* (diretorio, tipo_doc).  The handler passes one fixed path per document
\* class (DIR_VENDAS_FIXO with "Venda", DIR_COMPRAS_FIXO with "Compra"), so
\* tipo stands for the key.  An entry holds the returned value and the st.*
\* calls of the run that computed it, replayed on a hit.
NoEntry == [cached |-> FALSE, out |-> Outcome(pd_DataFrame_empty, 0, 0, <<>>, 0, <<>>)]

EmptyCache == [tipo \in {"Venda", "Compra"} |-> NoEntry]

\* the handler's call of the decorated function, guarded by os.path.isdir:
\* the stored entry on a hit, the function's own result on a miss
handler_processa_cache(entries, dir, tipo) ==
    IF dir.isdir /\ entries[tipo].cached THEN entries[tipo].out
    ELSE handler_processa(dir, tipo)

\* the entries after a call that returned out: a miss stores the result,
\* a hit leaves the entry as it is
cache_store(entries, tipo, out) == [entries EXCEPT ![tipo] = [cached |-> TRUE, out |-> out]]

\* the handler from the return of processar_diretorio_xml on, out being
\* what the call gave
handler_resultado(out) ==
    /\ cache' = IF diretorio.isdir THEN cache_store(cache, tipo_doc, out) ELSE cache
    /\ df_detalhe' = out.ret
    /\ total_files' = out.total_files
    /\ processed_count' = out.processed_count
    /\ error_files' = out.error_files
    /\ progress_bar' = out.progress
    /\ processou' = (out.ret # pd_DataFrame_empty)
    /\ IF out.ret = pd_DataFrame_empty /\ ~outra_processou
       THEN /\ st_log' = out.st \o <<"error_nenhum_dado_valido">>
            /\ df_resumo' = pd_DataFrame_empty
       ELSE /\ st_log' = out.st
            /\ df_resumo' = criar_resumo_produto(out.ret)

Analisar ==
    /\ pc = "idle"
    /\ handler_resultado(handler_processa_cache(cache, diretorio, tipo_doc))
    /\ pc' = "done"
    /\ UNCHANGED <<diretorio, tipo_doc, outra_processou>>

Next == Analisar

\* Streamlit runs the script again on the next interaction; the cache
\* outlives the run.
Reexecutar ==
    /\ pc = "done"
    /\ pc' = "idle"
    /\ UNCHANGED <<diretorio, tipo_doc, df_detalhe, total_files, processed_count, error_files, progress_bar, st_log, processou, outra_processou, df_resumo, cache>>

(***************************************************************************)
(* Inputs: documents and directories                                       *)
(***************************************************************************)
MaxFiles == 3

MaxDets == 3

SeqsUpTo(S, n) == UNION {[1..k -> S] : k \in 0..n}

NoLeaf == [present |-> FALSE, ns |-> FALSE, text |-> None]

\* <det><prod>...</prod></det>, every element in the namespace
CanonDet(cProd, xProd, cfop, qCom, vUnCom) ==
    [present |-> TRUE, ns |-> TRUE,
     prod |-> [present |-> TRUE, ns |-> TRUE,
               cProd |-> Leaf(TRUE, cProd), xProd |-> Leaf(TRUE, xProd),
               NCM |-> Leaf(TRUE, "1001"), CFOP |-> Leaf(TRUE, cfop),
               cEAN |-> Leaf(TRUE, "789"),
               qCom |-> Leaf(TRUE, qCom), vUnCom |-> Leaf(TRUE, vUnCom)]]

CanonIde == [present |-> TRUE, ns |-> TRUE, dhEmi |-> Leaf(TRUE, "2024-01-05T10:00:00-03:00")]

NoIde == [present |-> FALSE, ns |-> FALSE, dhEmi |-> NoLeaf]

NoProd ==
    [present |-> FALSE, ns |-> FALSE, cProd |-> NoLeaf, xProd |-> NoLeaf, NCM |-> NoLeaf,
     CFOP |-> NoLeaf, cEAN |-> NoLeaf, qCom |-> NoLeaf, vUnCom |-> NoLeaf]

OkDoc(ide, dets) == [status |-> "ok", root |-> [present |-> TRUE, ide |-> ide, dets |-> dets]]

\* a file ET.parse cannot read: the exception it raises
BadDoc(exception) == [status |-> exception, root |-> [present |-> FALSE, ide |-> NoIde, dets |-> <<>>]]

\* Directory entries of the batch scenarios: A yields two records of P1,
\* B is malformed, C yields one record of P2, D is well formed without
\* items, E cannot be read, and one entry is not an .xml file.
DocA == OkDoc(CanonIde, <<CanonDet("P1", "N1", "5102", "3", "10"), CanonDet("P1", "N1", "5102", "5", "10")>>)

DocB == BadDoc("XMLSyntaxError")

DocC == OkDoc(CanonIde, <<CanonDet("P2", "N2", "5405", "1", "100")>>)

DocD == OkDoc(CanonIde, <<>>)

DocE == BadDoc("OSError")

BatchEntries ==
    {[xml |-> TRUE, doc |-> d] : d \in {DocA, DocB, DocC, DocD, DocE}}
        \cup {[xml |-> FALSE, doc |-> DocC]}

\* the entries as files of one directory, named by their position
MkFiles(entries) == [i \in 1..Len(entries) |-> [name |-> i, xml |-> entries[i].xml, doc |-> entries[i].doc]]

Dir(entries) == [isdir |-> TRUE, listdir |-> "ok", files |-> MkFiles(entries)]

BatchDirs ==
    {Dir(es) : es \in SeqsUpTo(BatchEntries, MaxFiles)}
        \cup {[isdir |-> FALSE, listdir |-> "ok", files |-> <<>>]}
        \cup {[isdir |-> TRUE, listdir |-> e, files |-> <<>>] : e \in {"FileNotFoundError", "PermissionError"}}

\* [det EXCEPT its <prod> child `tag` replaced by `leaf`]
SetLeaf(det, tag, leaf) == [det EXCEPT !.prod[tag] = leaf]

BaseDet == CanonDet("P1", "N1", "5102", "1", "10")

\* Items of the summary scenarios: the base item and the items that differ
\* from it in one child of <prod> (absent, or another text).
ResumoDets ==
    {BaseDet}
        \cup {SetLeaf(BaseDet, tag, NoLeaf) : tag \in {"cProd", "xProd", "NCM", "CFOP"}}
        \cup {SetLeaf(BaseDet, "cProd", Leaf(TRUE, "P2")),
              SetLeaf(BaseDet, "xProd", Leaf(TRUE, "N2")),
              SetLeaf(BaseDet, "NCM", Leaf(TRUE, "2002"))}
        \cup {SetLeaf(BaseDet, "CFOP", Leaf(TRUE, t)) : t \in {"1102", "5405"}}
        \cup {SetLeaf(BaseDet, "qCom", Leaf(TRUE, t)) : t \in {"2", "inf", "-inf"}}

\* a directory holding the single document whose items are dets
DirOfDoc(doc) == Dir(<<[xml |-> TRUE, doc |-> doc]>>)

ResumoDirs == {DirOfDoc(OkDoc(CanonIde, dets)) : dets \in SeqsUpTo(ResumoDets, MaxDets)}

\* Documents of the extraction scenarios: a two-item document in the
\* namespace, and the documents one or two changes away from it.  A change
\* removes an element, takes it out of the namespace, empties it or gives
\* it another text; it applies to <ide>, to dhEmi or to the first <det>.
DetEdits(det) ==
    {[det EXCEPT !.ns = FALSE], [det EXCEPT !.prod = NoProd], [det EXCEPT !.prod.ns = FALSE]}
        \cup {SetLeaf(det, tag, NoLeaf) : tag \in ProdTags}
        \cup {SetLeaf(det, tag, [det.prod[tag] EXCEPT !.ns = FALSE]) : tag \in ProdTags}
        \cup {SetLeaf(det, tag, Leaf(TRUE, None)) : tag \in ProdTags}
        \cup {SetLeaf(det, "cProd", Leaf(TRUE, "P2"))}
        \cup {SetLeaf(det, "qCom", Leaf(TRUE, t)) : t \in {"abc", "0", "5.0", "inf", "-inf", "nan"}}
        \cup {SetLeaf(det, "vUnCom", Leaf(TRUE, t)) : t \in {"abc", "0", "5.0", "inf", "nan"}}

IdeEdits(ide) ==
    {NoIde, [ide EXCEPT !.ns = FALSE], [ide EXCEPT !.dhEmi = NoLeaf],
     [ide EXCEPT !.dhEmi.ns = FALSE], [ide EXCEPT !.dhEmi = Leaf(TRUE, None)],
     [ide EXCEPT !.dhEmi = Leaf(TRUE, "ontem")]}

OneEdit(doc) ==
    {[doc EXCEPT !.root.ide = e] : e \in IdeEdits(doc.root.ide)}
        \cup {[doc EXCEPT !.root.dets[1] = d] : d \in DetEdits(doc.root.dets[1])}

BaseDoc == OkDoc(CanonIde, <<BaseDet, CanonDet("P2", "N2", "5405", "2", "5.0")>>)

ExtractDocs == {BaseDoc} \cup OneEdit(BaseDoc) \cup UNION {OneEdit(d) : d \in OneEdit(BaseDoc)}

ExtractDirs == {DirOfDoc(d) : d \in ExtractDocs}

InitLocals ==
    /\ pc = "idle"
    /\ df_detalhe = pd_DataFrame_empty
    /\ total_files = 0
    /\ processed_count = 0
    /\ error_files = <<>>
    /\ progress_bar = 0
    /\ st_log = <<>>
    /\ processou = FALSE
    /\ df_resumo = pd_DataFrame_empty
    /\ cache = EmptyCache

Init ==
    /\ diretorio \in BatchDirs
    /\ tipo_doc \in {"Venda", "Compra"}
    /\ outra_processou \in BOOLEAN
    /\ InitLocals

Spec == Init /\ [][Next]_vars

InitResumo ==
    /\ diretorio \in ResumoDirs
    /\ tipo_doc \in {"Venda", "Compra"}
    /\ outra_processou = FALSE
    /\ InitLocals

SpecResumo == InitResumo /\ [][Next]_vars

InitExtract ==
    /\ diretorio \in ExtractDirs
    /\ tipo_doc \in {"Venda", "Compra"}
    /\ outra_processou = FALSE
    /\ InitLocals

SpecExtract == InitExtract /\ [][Next]_vars

\* Directories of the caching scenarios: up to MaxFiles .xml files among
\* A, B and C, or no directory at all.
CacheDirs ==
    {Dir(es) : es \in SeqsUpTo({[xml |-> TRUE, doc |-> d] : d \in {DocA, DocB, DocC}}, MaxFiles)}
        \cup {[isdir |-> FALSE, listdir |-> "ok", files |-> <<>>]}

\* Between two runs of the script, files are added to, removed from or
\* replaced in the directory.
AlterarDiretorio ==
    /\ pc = "done"
    /\ diretorio' \in CacheDirs \ {diretorio}
    /\ pc' = "idle"
    /\ UNCHANGED <<tipo_doc, df_detalhe, total_files, processed_count, error_files, progress_bar, st_log, processou, outra_processou, df_resumo, cache>>

InitCache ==
    /\ diretorio \in CacheDirs
    /\ tipo_doc \in {"Venda", "Compra"}
    /\ outra_processou = FALSE
    /\ InitLocals

NextCache == Analisar \/ Reexecutar \/ AlterarDiretorio

SpecCache == InitCache /\ [][NextCache]_vars

(***************************************************************************)
(* Batch processing: failure isolation and reporting                       *)
(***************************************************************************)
Listed == diretorio.isdir /\ diretorio.listdir = "ok"

WellFormed(f) == f.doc.status = "ok"

\* what processar_diretorio_xml returns for the directory holding f alone
Alone(f, tipo) == processar_diretorio_xml([isdir |-> TRUE, listdir |-> "ok", files |-> <<f>>], tipo).ret

RECURSIVE ConcatAlone(_, _)
ConcatAlone(files, tipo) ==
    IF files = <<>> THEN <<>>
    ELSE Alone(Head(files), tipo) \o ConcatAlone(Tail(files), tipo)

\* C1: whatever documents of a batch are malformed or unreadable, the loop
\* visits every discovered document, and the returned records are exactly
\* the records each well-formed document yields on its own, in document
\* order.
C1_FailureIsolation ==
    (pc = "done" /\ Listed) =>
        /\ progress_bar = Len(listdir_xml(diretorio))
        /\ df_detalhe = ConcatAlone(SelectSeq(listdir_xml(diretorio), WellFormed), tipo_doc)

\* C1 witness: a processed batch with a failing document between two
\* documents that both contributed records.
C1_Witness ==
    /\ pc = "done" /\ Listed
    /\ \E i, j, k \in 1..Len(diretorio.files) :
          /\ i < j /\ j < k
          /\ ~WellFormed(diretorio.files[j]) /\ diretorio.files[j].xml
          /\ \E r \in 1..Len(df_detalhe) : df_detalhe[r].arquivo_origem = i
          /\ \E r \in 1..Len(df_detalhe) : df_detalhe[r].arquivo_origem = k

\* C2 (as claimed): after the loop the failure list holds one entry per
\* malformed document; in particular a batch A, B (malformed), C reports 2
\* contributing documents out of 3 and 1 failure.
C2_FailuresRecorded ==
    (pc = "done" /\ Listed) =>
        Len(error_files) = Len(SelectSeq(listdir_xml(diretorio), LAMBDA f : ~WellFormed(f)))

\* a directory with .xml files of which none yields a record
NoneUsable(dir, tipo) ==
    /\ dir.isdir /\ dir.listdir = "ok"
    /\ listdir_xml(dir) # <<>>
    /\ \A i \in 1..Len(dir.files) : parse_xml_base(dir.files[i], tipo) = <<>>

\* C3 (as claimed): the value returned for a directory without .xml files
\* differs from the value returned for any directory whose files yield no
\* record.
C3_DistinctReturnValue ==
    (pc = "done" /\ Listed /\ listdir_xml(diretorio) = <<>>) =>
        \A d \in BatchDirs :
            NoneUsable(d, tipo_doc) => df_detalhe # processar_diretorio_xml(d, tipo_doc).ret

InLog(log, msg) == \E i \in 1..Len(log) : log[i] = msg

\* C3 (amended): for a directory without .xml files the function returns
\* the same empty DataFrame as for files that yield no record; the two
\* cases differ only in the warning emitted.
C3_DistinctWarningOnly ==
    (pc = "done" /\ Listed /\ listdir_xml(diretorio) = <<>>) =>
        /\ df_detalhe = pd_DataFrame_empty
        /\ InLog(st_log, "warning_nenhum_arquivo")
        /\ \A d \in BatchDirs :
              NoneUsable(d, tipo_doc) =>
                  LET other == processar_diretorio_xml(d, tipo_doc)
                  IN  /\ other.ret = df_detalhe
                      /\ InLog(other.st, "warning_nenhum_dado")
                      /\ ~InLog(other.st, "warning_nenhum_arquivo")
                      /\ ~InLog(st_log, "warning_nenhum_dado")

\* C3 witness: the handler ran on a directory that exists and holds an
\* entry, but no .xml file.
C3_Witness ==
    /\ pc = "done" /\ Listed
    /\ diretorio.files # <<>>
    /\ listdir_xml(diretorio) = <<>>

(***************************************************************************)
(* Product summary                                                         *)
(***************************************************************************)
\* indices of the records of df_detalhe with product code `codigo`
Idx(codigo) == {i \in 1..Len(df_detalhe) : df_detalhe[i].codigo_produto = codigo}

CfopCount(codigo, v) == Cardinality({i \in Idx(codigo) : df_detalhe[i].CFOP = v})

CfopValues(codigo) == {df_detalhe[i].CFOP : i \in Idx(codigo)} \ {None}

IsModeCfop(codigo, v) ==
    /\ v \in CfopValues(codigo)
    /\ \A w \in CfopValues(codigo) : CfopCount(codigo, w) <= CfopCount(codigo, v)

FirstIdx(codigo, col, v) ==
    CHOOSE i \in Idx(codigo) :
        /\ df_detalhe[i][col] = v
        /\ \A j \in Idx(codigo) : df_detalhe[j][col] = v => i <= j

ResumoRows == {df_resumo[j] : j \in 1..Len(df_resumo)}

\* C4 (as claimed): the dominant category code of a product is a most
\* frequent category_code of its records, and among tied codes the one
\* encountered first in record order; null without category codes.
C4_ModeFirstEncountered ==
    pc = "done" =>
        \A r \in ResumoRows :
            IF CfopValues(r.codigo_produto) = {} THEN r.CFOP_predominante = None
            ELSE /\ IsModeCfop(r.codigo_produto, r.CFOP_predominante)
                 /\ \A w \in CfopValues(r.codigo_produto) :
                       IsModeCfop(r.codigo_produto, w) =>
                           FirstIdx(r.codigo_produto, "CFOP", r.CFOP_predominante)
                               <= FirstIdx(r.codigo_produto, "CFOP", w)

\* C4 (amended): the dominant category code of a product is a most
\* frequent category_code of its records, and among tied codes the
\* smallest one in string order; null without category codes.
C4_ModeSmallest ==
    pc = "done" =>
        \A r \in ResumoRows :
            IF CfopValues(r.codigo_produto) = {} THEN r.CFOP_predominante = None
            ELSE /\ IsModeCfop(r.codigo_produto, r.CFOP_predominante)
                 /\ \A w \in CfopValues(r.codigo_produto) :
                       IsModeCfop(r.codigo_produto, w) =>
                           w = r.CFOP_predominante \/ str_lt(r.CFOP_predominante, w)

\* C4 witness: a summarised product whose records tie between two category
\* codes, the first encountered one not being the smallest.
C4_Witness ==
    /\ pc = "done"
    /\ \E r \in ResumoRows : \E v, w \in CfopValues(r.codigo_produto) :
          /\ IsModeCfop(r.codigo_produto, v) /\ IsModeCfop(r.codigo_produto, w)
          /\ str_lt(v, w)
          /\ FirstIdx(r.codigo_produto, "CFOP", w) < FirstIdx(r.codigo_produto, "CFOP", v)

\* the value of column col in the first record of the product
FirstRowValue(codigo, col) ==
    df_detalhe[CHOOSE i \in Idx(codigo) : \A j \in Idx(codigo) : i <= j][col]

\* the first non-null value of column col among the records of the product
FirstNonNull(codigo, col) ==
    LET nn == {i \in Idx(codigo) : df_detalhe[i][col] # None}
    IN  IF nn = {} THEN None
        ELSE df_detalhe[CHOOSE i \in nn : \A j \in nn : i <= j][col]

\* C5 (as claimed): product_name and tariff_code of a summary row are the
\* values of the first record with that product code, null included.
C5_FirstRecordValue ==
    pc = "done" =>
        \A r \in ResumoRows :
            /\ r.nome_produto = FirstRowValue(r.codigo_produto, "nome_produto")
            /\ r.NCM = FirstRowValue(r.codigo_produto, "NCM")

\* C5 (amended): product_name and tariff_code of a summary row are the
\* first non-null values among the records with that product code, in
\* record order, and null only when every such record has a null value.
C5_FirstNonNullValue ==
    pc = "done" =>
        \A r \in ResumoRows :
            /\ r.nome_produto = FirstNonNull(r.codigo_produto, "nome_produto")
            /\ r.NCM = FirstNonNull(r.codigo_produto, "NCM")

\* C5 witness: a summarised product whose first record has no name while a
\* later record has one.
C5_Witness ==
    /\ pc = "done"
    /\ \E r \in ResumoRows :
          /\ FirstRowValue(r.codigo_produto, "nome_produto") = None
          /\ FirstNonNull(r.codigo_produto, "nome_produto") # None

\* sum of column col over the records 1..n of df_detalhe with the code
RECURSIVE SumUpTo(_, _, _)
SumUpTo(n, codigo, col) ==
    IF n = 0 THEN Fin(0)
    ELSE IF df_detalhe[n].codigo_produto = codigo
         THEN fadd(SumUpTo(n - 1, codigo, col), df_detalhe[n][col])
         ELSE SumUpTo(n - 1, codigo, col)

Codigos == {df_detalhe[i].codigo_produto : i \in 1..Len(df_detalhe)} \ {None}

\* C6: the summary has exactly one row per distinct non-null product_code
\* and none for null; a row's total_quantity is the sum of quantity, and
\* its total_value the sum of line_total, over the records with its code.
C6_OneRowPerCodeWithSums ==
    pc = "done" =>
        /\ {r.codigo_produto : r \in ResumoRows} = Codigos
        /\ Len(df_resumo) = Cardinality(Codigos)
        /\ \A r \in ResumoRows :
              /\ r.qtd_total = SumUpTo(Len(df_detalhe), r.codigo_produto, "quantidade")
              /\ r.valor_total = SumUpTo(Len(df_detalhe), r.codigo_produto, "valor_total_item")

\* C6 witness: a summary with a product that has two records, from a
\* collection that also holds a record without product code.
C6_Witness ==
    /\ pc = "done"
    /\ df_resumo # <<>>
    /\ \E i \in 1..Len(df_detalhe) : df_detalhe[i].codigo_produto = None
    /\ \E r \in ResumoRows : Cardinality(Idx(r.codigo_produto)) = 2

\* C7 (as claimed): total_quantity never increases from one row of the
\* summary to the next.
C7_NonIncreasing ==
    pc = "done" =>
        \A j \in 1..(Len(df_resumo) - 1) :
            fgeq(df_resumo[j].qtd_total, df_resumo[j + 1].qtd_total)

(***************************************************************************)
(* Item extraction                                                         *)
(***************************************************************************)
LeafCanonical(leaf) == leaf.present => leaf.ns

\* every element of the document is in the namespace
Canonical(doc) ==
    /\ doc.status = "ok"
    /\ doc.root.ide.present => (doc.root.ide.ns /\ LeafCanonical(doc.root.ide.dhEmi))
    /\ \A i \in 1..Len(doc.root.dets) :
          LET det == doc.root.dets[i]
          IN  /\ det.ns
              /\ det.prod.present =>
                    (det.prod.ns /\ \A tag \in ProdTags : LeafCanonical(det.prod[tag]))

StripLeaf(leaf) == [leaf EXCEPT !.ns = FALSE]

StripDet(det) ==
    [present |-> det.present, ns |-> FALSE,
     prod |-> [present |-> det.prod.present, ns |-> FALSE,
               cProd |-> StripLeaf(det.prod.cProd), xProd |-> StripLeaf(det.prod.xProd),
               NCM |-> StripLeaf(det.prod.NCM), CFOP |-> StripLeaf(det.prod.CFOP),
               cEAN |-> StripLeaf(det.prod.cEAN), qCom |-> StripLeaf(det.prod.qCom),
               vUnCom |-> StripLeaf(det.prod.vUnCom)]]

\* the same file with the namespace removed from all its elements
Strip(f) ==
    [f EXCEPT !.doc.root.ide.ns = FALSE,
              !.doc.root.ide.dhEmi = StripLeaf(@),
              !.doc.root.dets = [i \in 1..Len(@) |-> StripDet(@[i])]]

TheFile == diretorio.files[1]

\* C8: a document with every element in the canonical namespace and the
\* same document with the namespace stripped from all elements give the
\* same sequence of records, timestamp text included.
C8_NamespaceFallbackEquivalence ==
    Canonical(TheFile.doc) =>
        parse_xml_base(TheFile, tipo_doc) = parse_xml_base(Strip(TheFile), tipo_doc)

\* C8 witness: the handler extracted two records with a timestamp from a
\* canonical document in which an element is missing.
C8_Witness ==
    /\ pc = "done"
    /\ Canonical(TheFile.doc)
    /\ Strip(TheFile) # TheFile
    /\ Len(parse_xml_base(TheFile, tipo_doc)) = 2
    /\ parse_xml_base(TheFile, tipo_doc)[1].data_hora_emissao # None
    /\ \E tag \in ProdTags : ~TheFile.doc.root.dets[1].prod[tag].present

\* an item element that carries a product code or a product name
HasIdentifier(det) ==
    /\ find_prod(det).present
    /\ \/ field_text(find_prod(det), "cProd") # None
       \/ field_text(find_prod(det), "xProd") # None

\* C9: every emitted record has a product code or a product name; an item
\* without both (or without <prod>) gives no record, and every other item
\* of the document gives one.
C9_RetentionInvariant ==
    pc = "done" =>
        /\ \A i \in 1..Len(df_detalhe) :
              df_detalhe[i].codigo_produto # None \/ df_detalhe[i].nome_produto # None
        /\ Len(df_detalhe) =
              Len(SelectSeq(det_elements_of(TheFile.doc.root), HasIdentifier))

\* C9 witness: of the two items of the processed document, the first has
\* a <prod> but neither code nor name, and only the second gave a record.
C9_Witness ==
    /\ pc = "done"
    /\ Len(det_elements_of(TheFile.doc.root)) = 2
    /\ find_prod(TheFile.doc.root.dets[1]).present
    /\ ~HasIdentifier(TheFile.doc.root.dets[1])
    /\ Len(df_detalhe) = 1
    /\ df_detalhe[1].codigo_produto = "P2"

\* C10 (as claimed): line_total = quantity * unit_price in every record
\* parse_xml_base creates, quantity and unit price being 0 for a missing or
\* unparsable text, and in every record of the collection returned by
\* processar_diretorio_xml.
C10_LineTotalConsistent ==
    pc = "done" =>
        /\ \A i \in 1..Len(parse_xml_base(TheFile, tipo_doc)) :
              LET item == parse_xml_base(TheFile, tipo_doc)[i]
              IN  item.valor_total_item = fmul(item.quantidade, item.valor_unitario)
        /\ \A i \in 1..Len(df_detalhe) :
              df_detalhe[i].valor_total_item
                  = fmul(df_detalhe[i].quantidade, df_detalhe[i].valor_unitario)

(***************************************************************************)
(* Result cache                                                            *)
(***************************************************************************)
\* C11 (as claimed): with the result cache on processar_diretorio_xml, a
\* call made after the document collection of the directory changed drops
\* the cached entry and returns the result of processing the current
\* collection, never the result computed for an earlier collection.
C11_CallReturnsCurrentCollection ==
    (pc = "done" /\ diretorio.isdir) =>
        /\ df_detalhe = processar_diretorio_xml(diretorio, tipo_doc).ret
        /\ cache[tipo_doc].cached
        /\ cache[tipo_doc].out.ret = processar_diretorio_xml(diretorio, tipo_doc).ret

====
